---- MODULE Spec2Model ----
(***************************************************************************)
(* Model of router.go: the Router that owns the published triemux.Mux      *)
(* behind a sync.RWMutex, ServeHTTP, ReloadRoutes, loadBackends,           *)
(* loadRoutes, loadRoute, RouteStats and shouldPreserveSegments.           *)
(*                                                                         *)
(* A URL path is a sequence of tokens; a decoded path is a sequence of     *)
(* segments.  The triemux package is not part of router.go: its Mux is     *)
(* modelled from the specification of the Route Table (insert, match,      *)
(* count, checksum).                                                       *)
(***************************************************************************)
EXTENDS Integers, Sequences, FiniteSets, TLC

\* ------------------------------------------------------------------ bounds
\* The number of Mux instances that may ever be allocated (the first is the
\* one NewRouter creates).
MaxMux == 3

\* ------------------------------------------------------- program constants
StatusGone == 410
StatusServiceUnavailable == 503
StatusInternalServerError == 500
StatusNotFound == 404
StatusOK == 200
StatusMovedPermanently == 301
StatusFound == 302

\* -------------------------------------------------------------- the tasks
Servers == {"s1", "s2"}
Reloaders == {"r1", "r2"}
StatsCallers == {"t1"}

\* ------------------------------------------------------------ url.Parse
Segs == {"a", "b"}
\* The decoded paths of one or two segments.
AllPaths == {<<x>> : x \in Segs} \cup {<<x, y>> : x \in Segs, y \in Segs}

\* A token of a raw path: a plain segment, the escape %62 (the letter b), the
\* invalid escape %zz, or the start of the query string.
ValidEscape(t) == t # "%zz"
Unescape(t) == IF t = "%62" THEN "b" ELSE t

RECURSIVE CutQuery(_)
CutQuery(raw) ==
    IF raw = <<>> \/ Head(raw) = "?" THEN <<>>
    ELSE <<Head(raw)>> \o CutQuery(Tail(raw))

\* url.Parse(route.Path): the query is cut off unread, the rest is unescaped
\* into .Path, and an invalid escape in it is an error.
UrlParse(raw) ==
    LET rest == CutQuery(raw)
    IN  [err  |-> \E i \in 1..Len(rest) : ~ValidEscape(rest[i]),
         Path |-> [i \in 1..Len(rest) |-> Unescape(rest[i])]]

\* url.Parse(backend.BackendURL)
BackendURLParses(u) == u # "%zz"

\* --------------------------------------------------------------- handlers
Handler(kind, target, preserve, temporary) ==
    [kind |-> kind, target |-> target, preserve |-> preserve, temporary |-> temporary]

NoHandler == Handler("none", "", FALSE, FALSE)
GoneHandler == Handler("gone", "", FALSE, FALSE)
UnavailableHandler == Handler("unavailable", "", FALSE, FALSE)
BoomHandler == Handler("boom", "", FALSE, FALSE)
NewBackendHandler(backendURL) == Handler("backend", backendURL, FALSE, FALSE)
NewRedirectHandler(destination, preserve, temporary) ==
    Handler("redirect", destination, preserve, temporary)

\* ------------------------------------------------------------ triemux.Mux
ChecksumMod == 2 ^ 16

KindCode(kind) ==
    CASE kind = "backend" -> 1
      [] kind = "gone" -> 2
      [] kind = "unavailable" -> 3
      [] kind = "redirect" -> 4
      [] kind = "boom" -> 5
      [] OTHER -> 0

SegCode(s) == IF s = "a" THEN 1 ELSE 2

RECURSIVE PathCode(_)
PathCode(path) ==
    IF path = <<>> THEN 0 ELSE SegCode(Head(path)) + 3 * PathCode(Tail(path))

TargetCode(t) ==
    CASE t = "" -> 0
      [] t = "http://app1" -> 1
      [] t = "http://app2" -> 2
      [] t = "/new" -> 3
      [] OTHER -> 4

HandlerCode(h) ==
    KindCode(h.kind) + 8 * TargetCode(h.target)
        + 64 * (IF h.preserve THEN 1 ELSE 0) + 128 * (IF h.temporary THEN 1 ELSE 0)

\* The digest contribution of one inserted (path, matchKind, handler) triple.
EntryCode(path, prefix, handler) ==
    PathCode(path) + 16 * (IF prefix THEN 1 ELSE 0) + 32 * HandlerCode(handler)

\* triemux.NewMux(): no entries, count 0, the digest's initial value.
NewMux ==
    [trie     |-> << >>,
     count    |-> 0,
     checksum |-> 0]

\* mux.Handle(path, prefix, handler): the last insertion at (path, prefix) wins;
\* count and checksum follow the insertion sequence.
Handle(mux, path, prefix, handler) ==
    [trie     |-> (<<path, prefix>> :> handler) @@ mux.trie,
     count    |-> mux.count + 1,
     checksum |-> (mux.checksum * 31 + EntryCode(path, prefix, handler)) % ChecksumMod]

Lookup(mux, path, prefix) ==
    IF <<path, prefix>> \in DOMAIN mux.trie THEN mux.trie[<<path, prefix>>] ELSE NoHandler

\* The lengths of the prefix entries that are ancestors of, or equal to, path.
PrefixLens(mux, path) ==
    {k \in 1..Len(path) : Lookup(mux, SubSeq(path, 1, k), TRUE) # NoHandler}

Max(S) == CHOOSE x \in S : \A y \in S : y <= x

\* The lookup of mux.ServeHTTP: the exact entry at the path, else the longest
\* prefix entry along it, else no match.
Match(mux, path) ==
    IF Lookup(mux, path, FALSE) # NoHandler THEN Lookup(mux, path, FALSE)
    ELSE IF PrefixLens(mux, path) # {}
         THEN Lookup(mux, SubSeq(path, 1, Max(PrefixLens(mux, path))), TRUE)
         ELSE NoHandler

RouteCount(mux) == mux.count
RouteChecksum(mux) == mux.checksum

\* ------------------------------------------------------- the compile pass
\* Mutant: an exact redirect preserves unless the mode is "ignore".
shouldPreserveSegmentsUnlessIgnore(redirect) ==
    IF redirect.Type = "exact" /\ redirect.SegmentsMode = "ignore" THEN FALSE
    ELSE IF redirect.Type = "exact" THEN TRUE
    ELSE IF redirect.Type = "prefix" /\ redirect.SegmentsMode = "ignore" THEN FALSE
    ELSE IF redirect.Type = "prefix" THEN TRUE
    ELSE FALSE

\* shouldPreserveSegments(redirect)
shouldPreserveSegments(redirect) ==
    IF redirect.Type = "exact" /\ redirect.SegmentsMode = "preserve" THEN TRUE
    ELSE IF redirect.Type = "exact" THEN FALSE
    ELSE IF redirect.Type = "prefix" /\ redirect.SegmentsMode = "ignore" THEN FALSE
    ELSE IF redirect.Type = "prefix" THEN TRUE
    ELSE FALSE

\* Mutant: the rendering application is looked up before the switch.
RouteHandlerBackendFirst(route, documentType, renderingApp, backends) ==
    IF renderingApp \notin DOMAIN backends THEN [ok |-> FALSE, handler |-> NoHandler]
    ELSE IF documentType = "boom" THEN [ok |-> TRUE, handler |-> BoomHandler]
    ELSE IF documentType = "gone" THEN [ok |-> TRUE, handler |-> backends["gone"]]
    ELSE IF documentType = "redirect"
         THEN [ok |-> TRUE,
               handler |-> NewRedirectHandler(route.Destination,
                                              shouldPreserveSegments(route),
                                              route.RedirectType = "temporary")]
    ELSE [ok |-> TRUE, handler |-> backends[renderingApp]]

\* The handler loadRoute registers for a route that is not disabled, and
\* whether it registers one (the switch on documentType).
RouteHandler(route, documentType, renderingApp, backends) ==
    IF documentType = "boom" THEN [ok |-> TRUE, handler |-> BoomHandler]
    ELSE IF documentType = "gone" THEN [ok |-> TRUE, handler |-> backends["gone"]]
    ELSE IF documentType = "redirect"
         THEN [ok |-> TRUE,
               handler |-> NewRedirectHandler(route.Destination,
                                              shouldPreserveSegments(route),
                                              route.RedirectType = "temporary")]
    ELSE IF renderingApp \in DOMAIN backends
         THEN [ok |-> TRUE, handler |-> backends[renderingApp]]
         ELSE [ok |-> FALSE, handler |-> NoHandler]

\* Mutant: the disabled flag is looked at in the default case of the switch only.
loadRouteDisabledInDefault(route, documentType, renderingApp, mux, backends) ==
    LET prefix == (route.Type = "prefix")
        incomingURL == UrlParse(route.Path)
        chosen == RouteHandler(route, documentType, renderingApp, backends)
    IN  IF incomingURL.err THEN mux
        ELSE IF route.Disabled /\ documentType \notin {"boom", "gone", "redirect"}
             THEN Handle(mux, incomingURL.Path, prefix, backends["unavailable"])
        ELSE IF chosen.ok
             THEN Handle(mux, incomingURL.Path, prefix, chosen.handler)
             ELSE mux

\* Mutant: a route is inserted as a prefix entry unless its Type is "exact".
loadRoutePrefixUnlessExact(route, documentType, renderingApp, mux, backends) ==
    LET prefix == (route.Type # "exact")
        incomingURL == UrlParse(route.Path)
        chosen == RouteHandler(route, documentType, renderingApp, backends)
    IN  IF incomingURL.err THEN mux
        ELSE IF route.Disabled
             THEN Handle(mux, incomingURL.Path, prefix, backends["unavailable"])
        ELSE IF chosen.ok
             THEN Handle(mux, incomingURL.Path, prefix, chosen.handler)
             ELSE mux

\* loadRoute(route, documentType, renderingApp, mux, backends): the mux after it.
loadRoute(route, documentType, renderingApp, mux, backends) ==
    LET prefix == (route.Type = "prefix")
        incomingURL == UrlParse(route.Path)
        chosen == RouteHandler(route, documentType, renderingApp, backends)
    IN  IF incomingURL.err THEN mux
        ELSE IF route.Disabled
             THEN Handle(mux, incomingURL.Path, prefix, backends["unavailable"])
        ELSE IF chosen.ok
             THEN Handle(mux, incomingURL.Path, prefix, chosen.handler)
             ELSE mux

RECURSIVE LoadRouteSeq(_, _, _, _, _)
LoadRouteSeq(routes, documentType, renderingApp, mux, backends) ==
    IF routes = <<>> THEN mux
    ELSE LoadRouteSeq(Tail(routes), documentType, renderingApp,
                      loadRoute(Head(routes), documentType, renderingApp, mux, backends),
                      backends)

\* Mutant: the Redirects are loaded with the content item's own document type.
LoadContentItemOwnType(contentItem, mux, backends) ==
    LoadRouteSeq(contentItem.Redirects, contentItem.DocumentType, contentItem.RenderingApp,
                 LoadRouteSeq(contentItem.Routes, contentItem.DocumentType,
                              contentItem.RenderingApp, mux, backends),
                 backends)

\* One iteration of the loop of loadRoutes: the Routes of the content item with
\* its own document type, then its Redirects as document type "redirect".
LoadContentItem(contentItem, mux, backends) ==
    LoadRouteSeq(contentItem.Redirects, "redirect", contentItem.RenderingApp,
                 LoadRouteSeq(contentItem.Routes, contentItem.DocumentType,
                              contentItem.RenderingApp, mux, backends),
                 backends)

RECURSIVE LoadBackendSeq(_, _)

\* Mutant: the loop ends at the first backend whose URL does not parse.
LoadBackendSeqStopAtBad(records, backends) ==
    IF records = <<>> THEN backends
    ELSE LET backend == Head(records)
         IN  IF BackendURLParses(backend.BackendURL)
             THEN LoadBackendSeq(Tail(records),
                      (backend.BackendID :> NewBackendHandler(backend.BackendURL)) @@ backends)
             ELSE backends

\* The loop of loadBackends over the scanned records.
LoadBackendSeq(records, backends) ==
    IF records = <<>> THEN backends
    ELSE LET backend == Head(records)
         IN  LoadBackendSeq(Tail(records),
                 IF BackendURLParses(backend.BackendURL)
                 THEN (backend.BackendID :> NewBackendHandler(backend.BackendURL)) @@ backends
                 ELSE backends)

\* Mutant: the synthetic handlers are put into the map before the scan.
loadBackendsSyntheticFirst(records) ==
    LoadBackendSeq(records, ("unavailable" :> UnavailableHandler) @@ ("gone" :> GoneHandler))

\* loadBackends(c) when the scan reports no error.
loadBackends(records) ==
    ("unavailable" :> UnavailableHandler) @@ ("gone" :> GoneHandler)
        @@ LoadBackendSeq(records, <<>>)

\* -------------------------------------------------------------- the store
Backend(id, url) == [BackendID |-> id, BackendURL |-> url]

Route(path, type, destination, segmentsMode, redirectType, disabled) ==
    [Path |-> path, Type |-> type, Destination |-> destination,
     SegmentsMode |-> segmentsMode, RedirectType |-> redirectType,
     Disabled |-> disabled]

ContentItem(renderingApp, documentType, routes, redirects) ==
    [RenderingApp |-> renderingApp, DocumentType |-> documentType,
     Routes |-> routes, Redirects |-> redirects]

\* The contents the store may have while the router runs: the backends and
\* content_items collections.
StoreA ==
    [backends |-> << Backend("app1", "http://app1"), Backend("bad", "%zz") >>,
     content_items |->
       << ContentItem("app1", "guide",
              << Route(<<"a">>, "exact", "", "", "", FALSE) >>,
              << Route(<<"a", "%62">>, "prefix", "/new", "", "permanent", FALSE) >>),
          ContentItem("nope", "boom",
              << Route(<<"b">>, "exact", "", "", "", FALSE),
                 Route(<<"%zz">>, "exact", "", "", "", TRUE) >>,
              << >>) >>]

StoreB ==
    [backends |-> << Backend("app2", "http://app2"), Backend("gone", "http://app1") >>,
     content_items |->
       << ContentItem("app2", "gone",
              << Route(<<"a">>, "prefix", "", "", "", FALSE),
                 Route(<<"b">>, "", "", "", "", TRUE) >>,
              << >>),
          ContentItem("bad", "guide",
              << Route(<<"a", "b">>, "exact", "", "", "", FALSE) >>,
              << Route(<<"b", "a", "?", "%zz">>, "exact", "/new", "preserve", "temporary", FALSE) >>),
          ContentItem("app2", "guide",
              << Route(<<"b", "b">>, "prefix", "", "", "", FALSE) >>,
              << >>) >>]

Stores == {StoreA, StoreB}

\* The stores of one content item with one route, in Routes or in Redirects,
\* over every value of the fields loadRoute reads.
RoutePaths == {<<"a">>, <<"a", "%62">>, <<"%zz">>, <<"b", "?", "%zz">>}
RouteTypes == {"exact", "prefix", "", "regex"}
SegmentsModes == {"preserve", "ignore", "", "keep"}
RedirectTypes == {"temporary", "permanent"}
DocumentTypes == {"boom", "gone", "redirect", "guide"}
RenderingApps == {"app1", "bad", "nope", "gone"}

RouteStores ==
    {[backends |-> << Backend("app1", "http://app1"), Backend("bad", "%zz") >>,
      content_items |->
        << ContentItem(app, doc,
               IF asRedirect THEN << >>
               ELSE << Route(path, type, "/new", mode, rtype, disabled) >>,
               IF asRedirect
               THEN << Route(path, type, "/new", mode, rtype, disabled) >>
               ELSE << >>) >>] :
        path \in RoutePaths, type \in RouteTypes, mode \in SegmentsModes,
        rtype \in RedirectTypes, disabled \in BOOLEAN,
        app \in RenderingApps, doc \in DocumentTypes, asRedirect \in BOOLEAN}

\* The backends collections of the record stores: none; one whose URL does not
\* parse between two that do; two that use the identifiers of the synthetic handlers.
RecordBackends ==
    {<< >>,
     << Backend("app1", "http://app1"), Backend("bad", "%zz"),
        Backend("app2", "http://app2") >>,
     << Backend("gone", "http://app1"), Backend("unavailable", "http://app2"),
        Backend("app1", "http://app1") >>}

\* The stores of two content items: the first with two Routes and one Redirect
\* over the fields that decide what is registered and where, the second fixed.
RecordStores ==
    {[backends |-> bs,
      content_items |->
        << ContentItem(app, doc,
               << Route(path, type, "", "", "", disabled),
                  Route(<<"a", "b">>, "prefix", "", "", "", FALSE) >>,
               << Route(rpath, rtype, "/new", "", "permanent", FALSE) >>),
           ContentItem("app1", "guide",
               << Route(<<"b">>, "exact", "", "", "", FALSE) >>,
               << >>) >>] :
        bs \in RecordBackends, app \in {"app1", "nope", "gone"}, doc \in DocumentTypes,
        path \in {<<"a">>, <<"%zz">>}, type \in {"exact", "prefix", ""}, disabled \in BOOLEAN,
        rpath \in {<<"a">>, <<"a", "b">>}, rtype \in {"exact", "prefix"}}

NoStore == [backends |-> << >>, content_items |-> << >>]

\* A whole compile pass over one store, as ReloadRoutes runs it without a fault.
RECURSIVE LoadItemSeq(_, _, _)
LoadItemSeq(items, mux, backends) ==
    IF items = <<>> THEN mux
    ELSE LoadItemSeq(Tail(items), LoadContentItem(Head(items), mux, backends), backends)

CompilePass(st) ==
    LoadItemSeq(st.content_items, NewMux, loadBackends(st.backends))

\* The tables of a whole compile pass over one of the stores.
CompiledTables == {CompilePass(st) : st \in Stores}

\* ------------------------------------------------------------- the Router
\* The request paths the clients ask for.
ReqPaths == {<<"a">>, <<"b">>, <<"a", "b">>}

NoMux == 0
NoLog == [count |-> 0, checksum |-> 0]
NoStats == [count |-> 0, checksum |-> <<>>]

VARIABLES
    store,      \* the store's current contents
    muxes,      \* the heap: the Mux instances still referenced, by reference
    nextMux,    \* the heap: the reference the next allocation returns
    rt_mux,     \* rt.mux: the published reference
    published,  \* the references rt.mux has ever held
    lockR,      \* rt.lock: the tasks holding it for reading
    lockW,      \* rt.lock: the task that called Lock and has not unlocked
    spc,        \* ServeHTTP: each serving task's position
    req,        \* ServeHTTP: the request path
    smux,       \* ServeHTTP: the local mux
    resp,       \* ServeHTTP: the status written to w (0: none yet)
    errlog,     \* rt.logger: whether a status-500 record has been logged
    rpc,        \* ReloadRoutes: each reloading task's position
    sess,       \* ReloadRoutes: whether the task's store session is open
    snap,       \* ReloadRoutes: the store contents the session reads
    newmux,     \* ReloadRoutes: the local newmux
    backends,   \* ReloadRoutes: the local backends map
    iter,       \* loadRoutes: the content items scanned so far
    logline,    \* ReloadRoutes: the count and checksum of its last log line
    tpc,        \* RouteStats: each calling task's position
    tmux,       \* RouteStats: the local mux
    stats       \* RouteStats: the stats map being filled

vars == <<store, muxes, nextMux, rt_mux, published, lockR, lockW, spc, req, smux, resp,
          errlog, rpc, sess, snap, newmux, backends, iter, logline, tpc, tmux, stats>>

routerVars == <<muxes, nextMux, rt_mux, published>>
lockVars == <<lockR, lockW>>
serveVars == <<spc, req, smux, resp, errlog>>
reloadVars == <<rpc, sess, snap, newmux, backends, iter, logline>>
statsVars == <<tpc, tmux, stats>>

Range(f) == {f[x] : x \in DOMAIN f}

\* The garbage collector: the instances of heap still referenced by rt.mux (root)
\* or by a local mux or newmux of a running call.
Collect(heap, root, muxLocals, newmuxLocals, statsLocals) ==
    [m \in DOMAIN heap \cap ({root} \cup Range(muxLocals) \cup Range(newmuxLocals)
                                    \cup Range(statsLocals))
        |-> heap[m]]

\* NewRouter: an empty mux is published; nothing runs yet.
InitWith(stores) ==
    /\ store \in stores
    /\ muxes = (1 :> NewMux)
    /\ nextMux = 2
    /\ rt_mux = 1
    /\ published = {1}
    /\ lockR = {}
    /\ lockW = "none"
    /\ spc = [s \in Servers |-> "idle"]
    /\ req = [s \in Servers |-> <<>>]
    /\ smux = [s \in Servers |-> NoMux]
    /\ resp = [s \in Servers |-> 0]
    /\ errlog = FALSE
    /\ rpc = [r \in Reloaders |-> "idle"]
    /\ sess = [r \in Reloaders |-> FALSE]
    /\ snap = [r \in Reloaders |-> NoStore]
    /\ newmux = [r \in Reloaders |-> NoMux]
    /\ backends = [r \in Reloaders |-> <<>>]
    /\ iter = [r \in Reloaders |-> 0]
    /\ logline = [r \in Reloaders |-> NoLog]
    /\ tpc = [t \in StatsCallers |-> "idle"]
    /\ tmux = [t \in StatsCallers |-> NoMux]
    /\ stats = [t \in StatsCallers |-> NoStats]

Init == InitWith(Stores)

\* Another writer changes the store's contents.
ChangeStore ==
    /\ store' \in Stores \ {store}
    /\ UNCHANGED <<routerVars, lockVars, serveVars, reloadVars, statsVars>>

\* ------------------------------------------------------------- ServeHTTP
\* A request arrives: ServeHTTP is called with a fresh ResponseWriter.
ServeStart(s) ==
    /\ spc[s] = "idle"
    /\ \E p \in ReqPaths : req' = [req EXCEPT ![s] = p]
    /\ spc' = [spc EXCEPT ![s] = "rlock"]
    /\ resp' = [resp EXCEPT ![s] = 0]
    /\ UNCHANGED <<store, routerVars, lockVars, smux, errlog, reloadVars, statsVars>>

\* rt.lock.RLock(): blocks while a writer holds the lock or waits for it.
ServeRLock(s) ==
    /\ spc[s] = "rlock"
    /\ lockW = "none"
    /\ lockR' = lockR \cup {s}
    /\ spc' = [spc EXCEPT ![s] = "read"]
    /\ UNCHANGED <<store, routerVars, lockW, req, smux, resp, errlog, reloadVars, statsVars>>

\* mux := rt.mux
ServeReadMux(s) ==
    /\ spc[s] = "read"
    /\ smux' = [smux EXCEPT ![s] = rt_mux]
    /\ spc' = [spc EXCEPT ![s] = "runlock"]
    /\ UNCHANGED <<store, routerVars, lockVars, req, resp, errlog, reloadVars, statsVars>>

\* Mutant: the read lock is kept while the request is matched and dispatched.
ServeRUnlockDeferred(s) ==
    /\ spc[s] = "runlock"
    /\ spc' = [spc EXCEPT ![s] = "dispatch"]
    /\ UNCHANGED <<store, routerVars, lockVars, req, smux, resp, errlog, reloadVars, statsVars>>

\* rt.lock.RUnlock()
ServeRUnlock(s) ==
    /\ spc[s] = "runlock"
    /\ lockR' = lockR \ {s}
    /\ spc' = [spc EXCEPT ![s] = "dispatch"]
    /\ UNCHANGED <<store, routerVars, lockW, req, smux, resp, errlog, reloadVars, statsVars>>

\* What the matched handler does with the request: the statuses it may write,
\* and whether it may raise a fault before writing any.
HandlerStatuses(h) ==
    CASE h.kind = "none" -> {StatusNotFound}
      [] h.kind = "gone" -> {StatusGone}
      [] h.kind = "unavailable" -> {StatusServiceUnavailable}
      [] h.kind = "redirect" ->
            {IF h.temporary THEN StatusFound ELSE StatusMovedPermanently}
      [] h.kind = "backend" -> {StatusOK}
      [] OTHER -> {}

HandlerMayPanic(h) == h.kind \in {"boom", "backend"}

\* mux.ServeHTTP(w, req): the handler is matched in the local mux as it is now
\* and answers.
ServeDispatch(s) ==
    /\ spc[s] = "dispatch"
    /\ \E st \in HandlerStatuses(Match(muxes[smux[s]], req[s])) :
          resp' = [resp EXCEPT ![s] = st]
    /\ spc' = [spc EXCEPT ![s] = "done"]
    /\ UNCHANGED <<store, routerVars, lockVars, req, smux, errlog, reloadVars, statsVars>>

\* mux.ServeHTTP(w, req): the matched handler panics.
ServePanic(s) ==
    /\ spc[s] = "dispatch"
    /\ HandlerMayPanic(Match(muxes[smux[s]], req[s]))
    /\ spc' = [spc EXCEPT ![s] = "panic"]
    /\ UNCHANGED <<store, routerVars, lockVars, req, smux, resp, errlog, reloadVars, statsVars>>

\* Mutant: the deferred function recovers and logs but writes no status.
ServeRecoverNoStatus(s) ==
    /\ spc[s] = "panic"
    /\ errlog' = TRUE
    /\ spc' = [spc EXCEPT ![s] = "done"]
    /\ UNCHANGED <<store, routerVars, lockVars, req, smux, resp, reloadVars, statsVars>>

\* The deferred function of ServeHTTP: recover, log the record, write 500.
ServeRecover(s) ==
    /\ spc[s] = "panic"
    /\ errlog' = TRUE
    /\ resp' = [resp EXCEPT ![s] = IF resp[s] = 0 THEN StatusInternalServerError
                                                   ELSE resp[s]]
    /\ spc' = [spc EXCEPT ![s] = "done"]
    /\ UNCHANGED <<store, routerVars, lockVars, req, smux, reloadVars, statsVars>>

\* ServeHTTP returns; the task waits for its next request.
ServeReturn(s) ==
    /\ spc[s] = "done"
    /\ spc' = [spc EXCEPT ![s] = "idle"]
    /\ req' = [req EXCEPT ![s] = <<>>]
    /\ smux' = [smux EXCEPT ![s] = NoMux]
    /\ resp' = [resp EXCEPT ![s] = 0]
    /\ muxes' = Collect(muxes, rt_mux, smux', newmux, tmux)
    /\ published' = published \cap DOMAIN muxes'
    /\ UNCHANGED <<store, nextMux, rt_mux, lockVars, errlog, reloadVars, statsVars>>

Serve(s) ==
    \/ ServeStart(s)
    \/ ServeRLock(s)
    \/ ServeReadMux(s)
    \/ ServeRUnlock(s)
    \/ ServeDispatch(s)
    \/ ServePanic(s)
    \/ ServeRecover(s)
    \/ ServeReturn(s)

\* ----------------------------------------------------------- ReloadRoutes
ContentItems(r) == snap[r].content_items

\* Mutant: newmux starts as a copy of the published mux.
ReloadNewMuxCopy(r) ==
    /\ muxes' = (nextMux :> muxes[rt_mux]) @@ muxes
    /\ newmux' = [newmux EXCEPT ![r] = nextMux]
    /\ nextMux' = nextMux + 1

\* Mutant: newmux is the published mux itself (build in place).
ReloadNewMuxInPlace(r) ==
    /\ muxes' = muxes
    /\ newmux' = [newmux EXCEPT ![r] = rt_mux]
    /\ nextMux' = nextMux + 1

\* newmux := triemux.NewMux()
ReloadNewMux(r) ==
    /\ muxes' = (nextMux :> NewMux) @@ muxes
    /\ newmux' = [newmux EXCEPT ![r] = nextMux]
    /\ nextMux' = nextMux + 1

\* The stack of ReloadRoutes is unwound: its locals are gone.
ReloadUnwind(r) ==
    /\ snap' = [snap EXCEPT ![r] = NoStore]
    /\ newmux' = [newmux EXCEPT ![r] = NoMux]
    /\ backends' = [backends EXCEPT ![r] = <<>>]
    /\ iter' = [iter EXCEPT ![r] = 0]
    /\ muxes' = Collect(muxes, rt_mux, smux, newmux', tmux)
    /\ published' = published \cap DOMAIN muxes'

\* Mutant: a panic unwinds ReloadRoutes without closing the session.
ReloadPanicNoClose(r) ==
    /\ rpc' = [rpc EXCEPT ![r] = "recovered"]
    /\ sess' = sess
    /\ ReloadUnwind(r)
    /\ UNCHANGED <<store, nextMux, rt_mux, lockVars, serveVars, logline, statsVars>>

\* A panic unwinds ReloadRoutes: the deferred sess.Close() runs, then the
\* deferred function recovers.
ReloadPanic(r) ==
    /\ rpc' = [rpc EXCEPT ![r] = "recovered"]
    /\ sess' = [sess EXCEPT ![r] = FALSE]
    /\ ReloadUnwind(r)
    /\ UNCHANGED <<store, nextMux, rt_mux, lockVars, serveVars, logline, statsVars>>

\* mgo.Dial succeeds; the session reads the store as it is; newmux is created.
ReloadDial(r) ==
    /\ rpc[r] = "idle"
    /\ nextMux <= MaxMux
    /\ sess' = [sess EXCEPT ![r] = TRUE]
    /\ snap' = [snap EXCEPT ![r] = store]
    /\ ReloadNewMux(r)
    /\ rpc' = [rpc EXCEPT ![r] = "backends"]
    /\ UNCHANGED <<store, rt_mux, published, lockVars, serveVars, backends, iter, logline, statsVars>>

\* mgo.Dial fails: panic before any session exists.
ReloadDialFail(r) ==
    /\ rpc[r] = "idle"
    /\ rpc' = [rpc EXCEPT ![r] = "recovered"]
    /\ UNCHANGED <<store, routerVars, lockVars, serveVars, sess, snap, newmux,
                   backends, iter, logline, statsVars>>

\* Mutant: the write lock is taken before the store is scanned.
ReloadLoadBackendsLocked(r) ==
    /\ rpc[r] = "backends"
    /\ lockW = "none"
    /\ lockR = {}
    /\ lockW' = r
    /\ backends' = [backends EXCEPT ![r] = loadBackends(snap[r].backends)]
    /\ rpc' = [rpc EXCEPT ![r] = "routes"]
    /\ UNCHANGED <<store, routerVars, lockR, serveVars, sess, snap, newmux, iter, logline, statsVars>>

\* backends := rt.loadBackends(db.C("backends")), the scan ending without error.
ReloadLoadBackends(r) ==
    /\ rpc[r] = "backends"
    /\ backends' = [backends EXCEPT ![r] = loadBackends(snap[r].backends)]
    /\ rpc' = [rpc EXCEPT ![r] = "routes"]
    /\ UNCHANGED <<store, routerVars, lockVars, serveVars, sess, snap, newmux, iter, logline, statsVars>>

\* loadBackends: iter.Err() reports an error; panic.
ReloadLoadBackendsFail(r) ==
    /\ rpc[r] = "backends"
    /\ ReloadPanic(r)

\* Mutant: the routes are loaded into rt.mux instead of newmux.
ReloadLoadRoutesNextIntoPublished(r) ==
    /\ rpc[r] = "routes"
    /\ iter[r] < Len(ContentItems(r))
    /\ muxes' = [muxes EXCEPT ![rt_mux] =
                    LoadContentItem(ContentItems(r)[iter[r] + 1], @, backends[r])]
    /\ iter' = [iter EXCEPT ![r] = @ + 1]
    /\ UNCHANGED <<store, nextMux, rt_mux, published, lockVars, serveVars, rpc, sess, snap,
                   newmux, backends, logline, statsVars>>

\* loadRoutes: iter.Next yields the next content item; its routes and redirects
\* are loaded into newmux.
ReloadLoadRoutesNext(r) ==
    /\ rpc[r] = "routes"
    /\ iter[r] < Len(ContentItems(r))
    /\ muxes' = [muxes EXCEPT ![newmux[r]] =
                    LoadContentItem(ContentItems(r)[iter[r] + 1], @, backends[r])]
    /\ iter' = [iter EXCEPT ![r] = @ + 1]
    /\ UNCHANGED <<store, nextMux, rt_mux, published, lockVars, serveVars, rpc, sess, snap,
                   newmux, backends, logline, statsVars>>

\* Mutant: loadRoutes returns before the scan is exhausted.
ReloadLoadRoutesDoneEarly(r) ==
    /\ rpc[r] = "routes"
    /\ rpc' = [rpc EXCEPT ![r] = "lock"]
    /\ UNCHANGED <<store, routerVars, lockVars, serveVars, sess, snap, newmux,
                   backends, iter, logline, statsVars>>

\* loadRoutes: the scan is exhausted and iter.Err() is nil.
ReloadLoadRoutesDone(r) ==
    /\ rpc[r] = "routes"
    /\ iter[r] = Len(ContentItems(r))
    /\ rpc' = [rpc EXCEPT ![r] = "lock"]
    /\ UNCHANGED <<store, routerVars, lockVars, serveVars, sess, snap, newmux,
                   backends, iter, logline, statsVars>>

\* Mutant: a scan error ends loadRoutes without a panic.
ReloadLoadRoutesFailReturns(r) ==
    /\ rpc[r] = "routes"
    /\ rpc' = [rpc EXCEPT ![r] = "lock"]
    /\ UNCHANGED <<store, routerVars, lockVars, serveVars, sess, snap, newmux,
                   backends, iter, logline, statsVars>>

\* loadRoutes: the scan stops on an error; panic.
ReloadLoadRoutesFail(r) ==
    /\ rpc[r] = "routes"
    /\ ReloadPanic(r)

\* rt.lock.Lock(), first half: the writer announces itself; new readers block.
ReloadLock(r) ==
    /\ rpc[r] = "lock"
    /\ lockW = "none"
    /\ lockW' = r
    /\ rpc' = [rpc EXCEPT ![r] = "lockwait"]
    /\ UNCHANGED <<store, routerVars, lockR, serveVars, sess, snap, newmux,
                   backends, iter, logline, statsVars>>

\* rt.lock.Lock(), second half: the readers have left; the lock is held.
ReloadLockAcquire(r) ==
    /\ rpc[r] = "lockwait"
    /\ lockR = {}
    /\ rpc' = [rpc EXCEPT ![r] = "assign"]
    /\ UNCHANGED <<store, routerVars, lockVars, serveVars, sess, snap, newmux,
                   backends, iter, logline, statsVars>>

\* Mutant: the swap is skipped when a later reload has already published.
ReloadAssignIfNewer(r) ==
    /\ rpc[r] = "assign"
    /\ rt_mux' = IF newmux[r] > rt_mux THEN newmux[r] ELSE rt_mux
    /\ muxes' = Collect(muxes, rt_mux', smux, newmux, tmux)
    /\ published' = (published \cup {rt_mux'}) \cap DOMAIN muxes'
    /\ rpc' = [rpc EXCEPT ![r] = "unlock"]
    /\ UNCHANGED <<store, nextMux, lockVars, serveVars, sess, snap, newmux,
                   backends, iter, logline, statsVars>>

\* rt.mux = newmux
ReloadAssign(r) ==
    /\ rpc[r] = "assign"
    /\ rt_mux' = newmux[r]
    /\ muxes' = Collect(muxes, rt_mux', smux, newmux, tmux)
    /\ published' = (published \cup {newmux[r]}) \cap DOMAIN muxes'
    /\ rpc' = [rpc EXCEPT ![r] = "unlock"]
    /\ UNCHANGED <<store, nextMux, lockVars, serveVars, sess, snap, newmux,
                   backends, iter, logline, statsVars>>

\* rt.lock.Unlock()
ReloadUnlock(r) ==
    /\ rpc[r] = "unlock"
    /\ lockW' = "none"
    /\ rpc' = [rpc EXCEPT ![r] = "logcount"]
    /\ UNCHANGED <<store, routerVars, lockR, serveVars, sess, snap, newmux,
                   backends, iter, logline, statsVars>>

\* The log line's first argument: rt.mux.RouteCount(), read without the lock.
ReloadLogCount(r) ==
    /\ rpc[r] = "logcount"
    /\ logline' = [logline EXCEPT ![r].count = RouteCount(muxes[rt_mux])]
    /\ rpc' = [rpc EXCEPT ![r] = "logsum"]
    /\ UNCHANGED <<store, routerVars, lockVars, serveVars, sess, snap, newmux,
                   backends, iter, statsVars>>

\* The log line's second argument: rt.mux.RouteChecksum(), read without the lock.
ReloadLogChecksum(r) ==
    /\ rpc[r] = "logsum"
    /\ logline' = [logline EXCEPT ![r].checksum = RouteChecksum(muxes[rt_mux])]
    /\ rpc' = [rpc EXCEPT ![r] = "logged"]
    /\ UNCHANGED <<store, routerVars, lockVars, serveVars, sess, snap, newmux,
                   backends, iter, statsVars>>

\* ReloadRoutes returns after its log line: the deferred sess.Close() runs.
ReloadReturn(r) ==
    /\ rpc[r] = "logged"
    /\ rpc' = [rpc EXCEPT ![r] = "idle"]
    /\ sess' = [sess EXCEPT ![r] = FALSE]
    /\ logline' = [logline EXCEPT ![r] = NoLog]
    /\ ReloadUnwind(r)
    /\ UNCHANGED <<store, nextMux, rt_mux, lockVars, serveVars, statsVars>>

\* ReloadRoutes returns after recovering: "original routes have not been modified".
ReloadAbandon(r) ==
    /\ rpc[r] = "recovered"
    /\ rpc' = [rpc EXCEPT ![r] = "idle"]
    /\ UNCHANGED <<store, routerVars, lockVars, serveVars, sess, snap, newmux,
                   backends, iter, logline, statsVars>>

Reload(r) ==
    \/ ReloadDial(r)
    \/ ReloadDialFail(r)
    \/ ReloadLoadBackends(r)
    \/ ReloadLoadBackendsFail(r)
    \/ ReloadLoadRoutesNext(r)
    \/ ReloadLoadRoutesDone(r)
    \/ ReloadLoadRoutesFail(r)
    \/ ReloadLock(r)
    \/ ReloadLockAcquire(r)
    \/ ReloadAssign(r)
    \/ ReloadUnlock(r)
    \/ ReloadLogCount(r)
    \/ ReloadLogChecksum(r)
    \/ ReloadReturn(r)
    \/ ReloadAbandon(r)

\* fmt.Sprintf("%x", checksum): two hexadecimal digits for each byte.
HexDigit(n) == SubSeq(<<"0", "1", "2", "3", "4", "5", "6", "7", "8", "9",
                        "a", "b", "c", "d", "e", "f">>, n + 1, n + 1)

Hex(n) ==
    HexDigit(n \div 4096) \o HexDigit((n \div 256) % 16)
        \o HexDigit((n \div 16) % 16) \o HexDigit(n % 16)

\* ------------------------------------------------------------ RouteStats
\* RouteStats is called: rt.lock.RLock().
StatsRLock(t) ==
    /\ tpc[t] = "idle"
    /\ lockW = "none"
    /\ lockR' = lockR \cup {t}
    /\ tpc' = [tpc EXCEPT ![t] = "read"]
    /\ UNCHANGED <<store, routerVars, lockW, serveVars, reloadVars, tmux, stats>>

\* mux := rt.mux
StatsReadMux(t) ==
    /\ tpc[t] = "read"
    /\ tmux' = [tmux EXCEPT ![t] = rt_mux]
    /\ tpc' = [tpc EXCEPT ![t] = "runlock"]
    /\ UNCHANGED <<store, routerVars, lockVars, serveVars, reloadVars, stats>>

\* rt.lock.RUnlock()
StatsRUnlock(t) ==
    /\ tpc[t] = "runlock"
    /\ lockR' = lockR \ {t}
    /\ tpc' = [tpc EXCEPT ![t] = "count"]
    /\ UNCHANGED <<store, routerVars, lockW, serveVars, reloadVars, tmux, stats>>

\* stats["count"] = mux.RouteCount()
StatsCount(t) ==
    /\ tpc[t] = "count"
    /\ stats' = [stats EXCEPT ![t].count = RouteCount(muxes[tmux[t]])]
    /\ tpc' = [tpc EXCEPT ![t] = "checksum"]
    /\ UNCHANGED <<store, routerVars, lockVars, serveVars, reloadVars, tmux>>

\* Mutant: the checksum is read from rt.mux instead of the local mux.
StatsChecksumFromPublished(t) ==
    /\ tpc[t] = "checksum"
    /\ stats' = [stats EXCEPT ![t].checksum = Hex(RouteChecksum(muxes[rt_mux]))]
    /\ tpc' = [tpc EXCEPT ![t] = "done"]
    /\ UNCHANGED <<store, routerVars, lockVars, serveVars, reloadVars, tmux>>

\* stats["checksum"] = fmt.Sprintf("%x", mux.RouteChecksum()); return
StatsChecksum(t) ==
    /\ tpc[t] = "checksum"
    /\ stats' = [stats EXCEPT ![t].checksum = Hex(RouteChecksum(muxes[tmux[t]]))]
    /\ tpc' = [tpc EXCEPT ![t] = "done"]
    /\ UNCHANGED <<store, routerVars, lockVars, serveVars, reloadVars, tmux>>

\* The caller has taken the stats map.
StatsReturn(t) ==
    /\ tpc[t] = "done"
    /\ tpc' = [tpc EXCEPT ![t] = "idle"]
    /\ tmux' = [tmux EXCEPT ![t] = NoMux]
    /\ stats' = [stats EXCEPT ![t] = NoStats]
    /\ muxes' = Collect(muxes, rt_mux, smux, newmux, tmux')
    /\ published' = published \cap DOMAIN muxes'
    /\ UNCHANGED <<store, nextMux, rt_mux, lockVars, serveVars, reloadVars>>

RouteStats(t) ==
    \/ StatsRLock(t)
    \/ StatsReadMux(t)
    \/ StatsRUnlock(t)
    \/ StatsCount(t)
    \/ StatsChecksum(t)
    \/ StatsReturn(t)

\* One serving task beside two reloading tasks.
Next ==
    \/ ChangeStore
    \/ \E s \in {"s1"} : Serve(s)
    \/ \E r \in Reloaders : Reload(r)

Spec == Init /\ [][Next]_vars

\* Two serving tasks beside one reloading task; the store keeps its contents.
NextServe ==
    \/ \E s \in Servers : Serve(s)
    \/ \E r \in {"r1"} : Reload(r)

SpecServe == Init /\ [][NextServe]_vars

\* A serving task and a RouteStats caller beside one reloading task.
NextStats ==
    \/ ChangeStore
    \/ \E s \in {"s1"} : Serve(s)
    \/ \E t \in StatsCallers : RouteStats(t)
    \/ \E r \in {"r1"} : Reload(r)

SpecStats == Init /\ [][NextStats]_vars

\* The store keeps its contents: one serving task beside two reloading tasks.
NextFixed ==
    \/ \E s \in {"s1"} : Serve(s)
    \/ \E r \in Reloaders : Reload(r)

SpecFixed == Init /\ [][NextFixed]_vars

\* One reloading task compiles a store of one route.
InitCompile == InitWith(RouteStores)

NextCompile == \E r \in {"r1"} : Reload(r)

SpecCompile == InitCompile /\ [][NextCompile]_vars

\* One reloading task compiles a store of two content items.
InitRecords == InitWith(RecordStores)

SpecRecords == InitRecords /\ [][NextCompile]_vars

\* The steps of ServeHTTP the scheduler runs once the request has arrived.
ServeProgress(s) ==
    \/ ServeRLock(s)
    \/ ServeReadMux(s)
    \/ ServeRUnlock(s)
    \/ ServeDispatch(s)
    \/ ServePanic(s)
    \/ ServeRecover(s)

\* The steps of ReloadRoutes between the readers' leaving and Unlock.
ReloadCritical(r) ==
    \/ ReloadLockAcquire(r)
    \/ ReloadAssign(r)
    \/ ReloadUnlock(r)

\* Fair scheduling of the serving tasks and of the swap; the store I/O of a
\* reload (dial, scans) may take for ever.
SpecServeLive ==
    /\ SpecServe
    /\ \A s \in Servers : WF_vars(ServeProgress(s))
    /\ WF_vars(ReloadCritical("r1"))

\* ------------------------------------------------------------ properties
\* The positions of ServeHTTP at which the local mux has been read.
HasMux == {"runlock", "dispatch", "panic", "done"}

\* The positions of ReloadRoutes before its swap, and after it.
BeforeSwap == {"idle", "backends", "routes", "lock", "lockwait", "assign"}
AfterSwap == {"unlock", "logcount", "logsum", "logged"}

\* The step of r is its swap.
Swaps(r) == rpc[r] = "assign" /\ rpc'[r] = "unlock"

\* What RouteStats returns when it reads the count and the checksum of one mux.
Stats(mux) == [count |-> RouteCount(mux), checksum |-> Hex(RouteChecksum(mux))]

\* What a client is answered from a mux: the handler matched for each path.
ProbePaths == AllPaths \cup {<<"a", "b", "a">>, <<"b", "b", "a">>}
Matches(mux) == [p \in ProbePaths |-> Match(mux, p)]

\* C1: the table a ServeHTTP call holds is a published one, and when the call
\* matches and dispatches against it, it is whole: the empty table of NewRouter
\* or the result of one complete compile pass over one store, never a part of a
\* pass or a mix of two.
C1_ServeSeesWholeTable ==
    \A s \in Servers :
        spc[s] \in HasMux =>
            /\ smux[s] \in published
            /\ spc[s] = "dispatch" => muxes[smux[s]] \in {NewMux} \cup CompiledTables

\* C1 witness: a call dispatches against the table it read before a swap, which
\* is no longer the published one, while another reload has built part of its table.
C1_Witness ==
    \E s \in Servers, r \in Reloaders :
        /\ spc[s] = "dispatch"
        /\ smux[s] # rt_mux
        /\ rt_mux # 1
        /\ rpc[r] = "routes"
        /\ iter[r] = 1
        /\ muxes[newmux[r]].count > 0

\* C2: no step of a reload before its swap, and so no step of an attempt
\* that faults, changes the published reference, what RouteStats reports, or the
\* match result of a request path; and a fault is never raised at or after the swap.
C2_FailedReloadKeepsTable ==
    [][\A r \in Reloaders :
          /\ (rpc[r] \in BeforeSwap \ {"assign"}
                /\ (rpc'[r] # rpc[r] \/ iter'[r] # iter[r] \/ newmux'[r] # newmux[r]))
             => /\ rt_mux' = rt_mux
                /\ Stats(muxes'[rt_mux']) = Stats(muxes[rt_mux])
                /\ Matches(muxes'[rt_mux']) = Matches(muxes[rt_mux])
          /\ (rpc'[r] = "recovered" /\ rpc[r] # "recovered")
             => rpc[r] \in {"idle", "backends", "routes"}
      ]_vars

\* C2 witness: a reload has faulted while a table of an earlier reload is published.
C2_Witness ==
    \E r \in Reloaders :
        /\ rpc[r] = "recovered"
        /\ rt_mux # 1
        /\ muxes[rt_mux].count > 0

\* C4: a table that is or was published is never changed; a reload's newmux is
\* a new instance, empty when created; and a table changes only by the inserts
\* of the one reload that created it and has not published it.
C4_PublishedNeverMutated ==
    [][/\ \A m \in published : m \in DOMAIN muxes' => muxes'[m] = muxes[m]
       /\ \A r \in Reloaders :
             (newmux'[r] # newmux[r] /\ newmux'[r] # NoMux)
                => /\ newmux'[r] \notin DOMAIN muxes
                   /\ muxes'[newmux'[r]] = NewMux
       /\ \A m \in DOMAIN muxes \cap DOMAIN muxes' :
             muxes'[m] # muxes[m]
                => \E r \in Reloaders :
                      /\ newmux[r] = m
                      /\ rpc[r] = "routes"
                      /\ m # rt_mux
                      /\ m \notin published
                      /\ \A r2 \in Reloaders \ {r} : newmux[r2] # m
      ]_vars

\* C4 witness: a reload has inserted entries into its own table while the table
\* of an earlier reload is the published one.
C4_Witness ==
    \E r \in Reloaders :
        /\ rpc[r] = "routes"
        /\ muxes[newmux[r]].count > 0
        /\ rt_mux \notin {1, newmux[r]}
        /\ muxes[rt_mux].count > 0

\* C3: a handler's fault is caught by the deferred function of ServeHTTP, which
\* writes 500 and logs; the "boom" handler always faults; the faulting call holds
\* no lock, returns, and every request answered by a handler gets that handler's
\* status, before and after faults.
C3_FaultGives500 ==
    [][\A s \in Servers :
          /\ (spc[s] = "dispatch" /\ Match(muxes[smux[s]], req[s]) = BoomHandler)
                => spc'[s] \in {"dispatch", "panic"}
          /\ (spc[s] = "panic" /\ spc'[s] # "panic")
                => /\ spc'[s] = "done"
                   /\ resp'[s] = StatusInternalServerError
                   /\ errlog'
          /\ spc[s] = "panic" => s \notin lockR /\ lockW # s
          /\ (spc[s] = "dispatch" /\ spc'[s] = "done")
                => resp'[s] \in HandlerStatuses(Match(muxes[smux[s]], req[s]))
          /\ (spc[s] = "done" /\ spc'[s] # "done")
                => spc'[s] = "idle" /\ s \notin lockR
      ]_vars

\* C3 witness: after a fault was caught and logged, the serving task has
\* answered a later request with the status of the gone handler.
C3_Witness ==
    /\ errlog
    /\ spc["s1"] = "done"
    /\ resp["s1"] = StatusGone
    /\ spc["s2"] = "idle"

\* C5: a task that holds rt.lock is at the read of rt.mux or at the
\* assignment to it, or about to unlock: no holder is matching, dispatching,
\* computing count or checksum, or in store I/O or a build.
C5_LockOnlyAroundPointer ==
    /\ \A s \in lockR \cap Servers : spc[s] \in {"read", "runlock"}
    /\ \A t \in lockR \cap StatsCallers : tpc[t] \in {"read", "runlock"}
    /\ lockR \subseteq Servers \cup StatsCallers
    /\ \A r \in Reloaders :
          lockW = r => rpc[r] \in {"lockwait", "assign", "unlock"}
    /\ \A r \in Reloaders :
          rpc[r] \in {"assign", "unlock"} => lockW = r /\ lockR = {}

\* C5 witness: a reload holds the write lock at its assignment while a request is
\* being dispatched and RouteStats is computing.
C5_Witness ==
    /\ rpc["r1"] = "assign"
    /\ spc["s1"] = "dispatch"
    /\ tpc["t1"] = "checksum"

\* C6: a reload that is dialling, scanning, building or has recovered from a
\* fault does not hold or wait for rt.lock, and under fair scheduling every
\* ServeHTTP call that has begun completes with a response.
C6_ServeProgress ==
    /\ [](\A r \in Reloaders :
            rpc[r] \in {"idle", "backends", "routes", "recovered", "lock"} => lockW # r)
    /\ \A s \in Servers :
          (spc[s] = "rlock") ~> (spc[s] = "done" /\ resp[s] # 0)

\* C6 witness: a request has been answered while the reload is in its scan.
C6_Witness ==
    /\ rpc["r1"] = "routes"
    /\ spc["s1"] = "done"
    /\ resp["s1"] # 0
    /\ spc["s2"] = "rlock"

\* C7: concurrent reloads hold different tables, each swap publishes the
\* table of the reload that performs it, and nothing else changes rt.mux: the
\* published table is that of the last swap.
C7_LastSwapWins ==
    [][/\ \A r \in Reloaders : Swaps(r) => rt_mux' = newmux[r]
       /\ rt_mux' # rt_mux => \E r \in Reloaders : Swaps(r)
       /\ \A r1, r2 \in Reloaders :
             (r1 # r2 /\ newmux'[r1] # NoMux) => newmux'[r1] # newmux'[r2]
      ]_vars

\* C7 witness: both reloads have swapped, and the published table is that of
\* the reload that started first and swapped last.
C7_Witness ==
    \E r1, r2 \in Reloaders :
        /\ rpc[r1] \in AfterSwap
        /\ rpc[r2] \in AfterSwap
        /\ newmux[r1] < newmux[r2]
        /\ rt_mux = newmux[r1]

\* C8: with the store unchanged, a swap that replaces the table of an earlier
\* reload publishes another instance with the same count and checksum and the
\* same handler for every path.
C8_ReloadIdempotent ==
    [][\A r \in Reloaders :
          (Swaps(r) /\ rt_mux # 1)
             => /\ newmux[r] # rt_mux
                /\ rt_mux' = newmux[r]
                /\ Stats(muxes[newmux[r]]) = Stats(muxes[rt_mux])
                /\ Matches(muxes[newmux[r]]) = Matches(muxes[rt_mux])
      ]_vars

\* C8 witness: the second successful reload has swapped while a request still
\* holds the table of the first; both have the same non-zero count.
C8_Witness ==
    \E r \in Reloaders, s \in Servers :
        /\ rpc[r] = "unlock"
        /\ rt_mux = newmux[r]
        /\ spc[s] \in HasMux
        /\ smux[s] \notin {1, rt_mux}
        /\ muxes[rt_mux].count > 0
        /\ Stats(muxes[smux[s]]) = Stats(muxes[rt_mux])

\* The reload r has run loadRoutes to its end and still holds its newmux.
Built(r) == rpc[r] \in {"lock", "lockwait", "assign"} \cup AfterSwap

\* The one route of the store of r, and the document type it is loaded with.
TheItem(r) == snap[r].content_items[1]
TheRoute(r) ==
    IF TheItem(r).Routes # << >> THEN TheItem(r).Routes[1] ELSE TheItem(r).Redirects[1]
TheDocumentType(r) ==
    IF TheItem(r).Routes # << >> THEN TheItem(r).DocumentType ELSE "redirect"

\* The table holds one entry: handler h at the route's decoded path and match kind.
Registered(mux, route, h) ==
    /\ mux.count = 1
    /\ DOMAIN mux.trie = {<<UrlParse(route.Path).Path, route.Type = "prefix">>}
    /\ mux.trie[<<UrlParse(route.Path).Path, route.Type = "prefix">>] = h
    /\ h # NoHandler
    /\ Match(mux, UrlParse(route.Path).Path) = h

\* The identifiers of the backend mapping: the synthetic two and the store's
\* backends whose URL parses.
KnownApps(st) ==
    {"gone", "unavailable"}
        \cup {st.backends[i].BackendID : i \in {j \in DOMAIN st.backends :
                                                  BackendURLParses(st.backends[j].BackendURL)}}

\* C9 as stated: every disabled route, whatever its path, is registered with
\* the unavailable handler.
C9_Original ==
    \A r \in Reloaders :
        (Built(r) /\ TheRoute(r).Disabled)
            => Registered(muxes[newmux[r]], TheRoute(r), UnavailableHandler)

\* C9, amended: every disabled route whose path parses is registered with the
\* unavailable handler at its decoded path and match kind, whatever its document
\* type, rendering application and redirect fields; one whose path does not parse
\* is not registered.
C9_DisabledIsUnavailable ==
    \A r \in Reloaders :
        (Built(r) /\ TheRoute(r).Disabled)
            => IF UrlParse(TheRoute(r).Path).err
               THEN muxes[newmux[r]] = NewMux
               ELSE /\ Registered(muxes[newmux[r]], TheRoute(r), UnavailableHandler)
                    /\ HandlerStatuses(Match(muxes[newmux[r]], UrlParse(TheRoute(r).Path).Path))
                          = {StatusServiceUnavailable}

\* C9 witness: a disabled redirect of a "boom" record with an unknown rendering
\* application is registered as unavailable.
C9_Witness ==
    /\ Built("r1")
    /\ TheRoute("r1").Disabled
    /\ TheItem("r1").DocumentType = "boom"
    /\ TheItem("r1").RenderingApp = "nope"
    /\ TheItem("r1").Redirects # << >>
    /\ TheRoute("r1").Path = <<"a", "%62">>
    /\ Lookup(muxes[newmux["r1"]], <<"a", "b">>, FALSE) = UnavailableHandler

\* C10: a route that is not disabled and whose path parses is registered by
\* document type alone: boom, gone and redirect with their handlers whatever
\* the rendering application; any other type with the mapping's handler for the
\* rendering application, and it is skipped exactly when that is not in the mapping.
C10_DocumentTypeDecides ==
    \A r \in Reloaders :
        (Built(r) /\ ~TheRoute(r).Disabled /\ ~UrlParse(TheRoute(r).Path).err)
            => LET mux == muxes[newmux[r]]
                   route == TheRoute(r)
                   doc == TheDocumentType(r)
                   app == TheItem(r).RenderingApp
                   h == Lookup(mux, UrlParse(route.Path).Path, route.Type = "prefix")
               IN  /\ doc = "boom" => Registered(mux, route, BoomHandler)
                   /\ doc = "gone" => Registered(mux, route, GoneHandler)
                   /\ doc = "redirect"
                        => /\ Registered(mux, route, h)
                           /\ h.kind = "redirect"
                           /\ h.target = route.Destination
                           /\ h.temporary = (route.RedirectType = "temporary")
                   /\ (doc \notin {"boom", "gone", "redirect"} /\ app \in KnownApps(snap[r]))
                        => /\ Registered(mux, route, h)
                           /\ h = IF app = "gone" THEN GoneHandler
                                  ELSE IF app = "unavailable" THEN UnavailableHandler
                                  ELSE NewBackendHandler(
                                         snap[r].backends[
                                            CHOOSE i \in DOMAIN snap[r].backends :
                                               snap[r].backends[i].BackendID = app
                                         ].BackendURL)
                   /\ (mux = NewMux)
                        <=> (doc \notin {"boom", "gone", "redirect"}
                               /\ app \notin KnownApps(snap[r]))

\* C10 witness: a "gone" route whose rendering application is not in the
\* mapping is registered with the gone handler.
C10_Witness ==
    /\ Built("r1")
    /\ ~TheRoute("r1").Disabled
    /\ TheItem("r1").Routes # << >>
    /\ TheItem("r1").DocumentType = "gone"
    /\ TheItem("r1").RenderingApp = "bad"
    /\ TheRoute("r1").Path = <<"b", "?", "%zz">>
    /\ Match(muxes[newmux["r1"]], <<"b">>) = GoneHandler

\* What a record is compiled to under a document type: the kind of handler
\* registered for it, "none" when it is omitted.
ExpectedKind(route, documentType, renderingApp, st) ==
    IF UrlParse(route.Path).err THEN "none"
    ELSE IF route.Disabled THEN "unavailable"
    ELSE IF documentType \in {"boom", "gone", "redirect"} THEN documentType
    ELSE IF renderingApp \in {"gone", "unavailable"} THEN renderingApp
    ELSE IF renderingApp \in KnownApps(st) THEN "backend"
    ELSE "none"

Entry(route, documentType, renderingApp, st) ==
    [path |-> UrlParse(route.Path).Path, prefix |-> (route.Type = "prefix"),
     kind |-> ExpectedKind(route, documentType, renderingApp, st)]

\* The entries of one content item in the order of insertion: its Routes under
\* its own document type, then its Redirects under "redirect".
ItemEntries(item, st) ==
    [j \in 1..Len(item.Routes) |->
        Entry(item.Routes[j], item.DocumentType, item.RenderingApp, st)]
    \o [j \in 1..Len(item.Redirects) |->
        Entry(item.Redirects[j], "redirect", item.RenderingApp, st)]

RECURSIVE Flatten(_)
Flatten(seqs) == IF seqs = << >> THEN << >> ELSE Head(seqs) \o Flatten(Tail(seqs))

\* The entries of a store that are registered, in the order of insertion.
StoreEntries(st) ==
    LET all == Flatten([i \in 1..Len(st.content_items) |->
                           ItemEntries(st.content_items[i], st)])
    IN  SelectSeq(all, LAMBDA e : e.kind # "none")

\* The kind of the last entry of entries at (path, prefix), "none" without one.
LastKind(entries, path, prefix) ==
    LET at == {i \in 1..Len(entries) :
                  entries[i].path = path /\ entries[i].prefix = prefix}
    IN  IF at = {} THEN "none" ELSE entries[Max(at)].kind

\* C11: a built table holds, at every path and match kind, the handler of the
\* last entry inserted there when each record's Routes are compiled under the
\* record's own document type and rendering application and then its Redirects
\* under "redirect", whatever the record's document type; its count is the number
\* of entries so inserted.
C11_RedirectsAsRedirect ==
    \A r \in Reloaders :
        Built(r) =>
            LET mux == muxes[newmux[r]]
                entries == StoreEntries(snap[r])
            IN  /\ RouteCount(mux) = Len(entries)
                /\ \A path \in AllPaths, prefix \in BOOLEAN :
                      Lookup(mux, path, prefix).kind = LastKind(entries, path, prefix)
                /\ \A k \in DOMAIN mux.trie : k[1] \in AllPaths

\* C11 witness: in a "boom" record with an unknown rendering application, the
\* Redirects entry at the path and match kind of a Routes entry has replaced it
\* with a redirect handler, while the other Routes entry is the boom handler.
C11_Witness ==
    /\ Built("r1")
    /\ snap["r1"] \in RecordStores
    /\ TheItem("r1").DocumentType = "boom"
    /\ TheItem("r1").RenderingApp = "nope"
    /\ TheItem("r1").Routes[1].Path = <<"a">>
    /\ TheItem("r1").Routes[1].Type = "exact"
    /\ ~TheItem("r1").Routes[1].Disabled
    /\ TheItem("r1").Redirects[1].Path = <<"a">>
    /\ TheItem("r1").Redirects[1].Type = "exact"
    /\ Lookup(muxes[newmux["r1"]], <<"a">>, FALSE).kind = "redirect"
    /\ Lookup(muxes[newmux["r1"]], <<"a", "b">>, TRUE) = BoomHandler

\* The reload r has compiled the one route of its store as a redirect: the
\* route is not disabled, its path parses, and its document type is "redirect".
CompiledRedirect(r) ==
    /\ Built(r)
    /\ ~TheRoute(r).Disabled
    /\ ~UrlParse(TheRoute(r).Path).err
    /\ TheDocumentType(r) = "redirect"

\* The preserve-segments decision given to the redirect handler of the route of r.
PreserveGiven(r) ==
    Lookup(muxes[newmux[r]], UrlParse(TheRoute(r).Path).Path,
           TheRoute(r).Type = "prefix").preserve

\* C12: for a redirect of Type "exact" or "prefix" and every segments mode,
\* the decision given to the redirect handler is the one of the table: exact
\* preserves only when the mode is "preserve", prefix unless it is "ignore".
C12_PreserveTable ==
    \A r \in Reloaders :
        (CompiledRedirect(r) /\ TheRoute(r).Type \in {"exact", "prefix"})
            => /\ Lookup(muxes[newmux[r]], UrlParse(TheRoute(r).Path).Path,
                         TheRoute(r).Type = "prefix").kind = "redirect"
               /\ TheRoute(r).Type = "exact"
                     => (PreserveGiven(r) <=> TheRoute(r).SegmentsMode = "preserve")
               /\ TheRoute(r).Type = "prefix"
                     => (PreserveGiven(r) <=> TheRoute(r).SegmentsMode # "ignore")

\* C12 witness: a prefix redirect whose segments mode is a string other than
\* "preserve" and "ignore" has been given the decision to preserve.
C12_Witness ==
    /\ CompiledRedirect("r1")
    /\ TheRoute("r1").Type = "prefix"
    /\ TheRoute("r1").SegmentsMode = "keep"
    /\ PreserveGiven("r1")

\* C17 as stated: for a redirect of any Type, the decision given to the handler
\* is the one the table assigns to the match kind the route is inserted under:
\* inserted as a prefix entry it preserves unless the mode is "ignore", inserted
\* as an exact entry it preserves only when the mode is "preserve".
C17_Original ==
    \A r \in Reloaders :
        CompiledRedirect(r)
            => LET route == TheRoute(r)
                   mux == muxes[newmux[r]]
               IN  /\ Lookup(mux, UrlParse(route.Path).Path, TRUE).kind = "redirect"
                        => (PreserveGiven(r) <=> route.SegmentsMode # "ignore")
                   /\ Lookup(mux, UrlParse(route.Path).Path, FALSE).kind = "redirect"
                        => (PreserveGiven(r) <=> route.SegmentsMode = "preserve")

\* The reload r has run loadBackends to its end and holds its backends map.
BackendsLoaded(r) == rpc[r] = "routes" \/ Built(r)

\* C13: once loadBackends has returned, the mapping maps "gone" to the handler
\* that always answers 410 and "unavailable" to the one that always answers 503,
\* whatever backends the store holds.
C13_SyntheticBackends ==
    \A r \in Reloaders :
        BackendsLoaded(r)
            => /\ {"gone", "unavailable"} \subseteq DOMAIN backends[r]
               /\ backends[r]["gone"] = GoneHandler
               /\ backends[r]["gone"].kind = "gone"
               /\ HandlerStatuses(backends[r]["gone"]) = {StatusGone}
               /\ ~HandlerMayPanic(backends[r]["gone"])
               /\ backends[r]["unavailable"] = UnavailableHandler
               /\ backends[r]["unavailable"].kind = "unavailable"
               /\ HandlerStatuses(backends[r]["unavailable"]) = {StatusServiceUnavailable}
               /\ ~HandlerMayPanic(backends[r]["unavailable"])

\* C13 witness: the backends of a store that itself holds backends named "gone"
\* and "unavailable" have been loaded.
C13_Witness ==
    /\ BackendsLoaded("r1")
    /\ \E i, j \in DOMAIN snap["r1"].backends :
          /\ snap["r1"].backends[i].BackendID = "gone"
          /\ BackendURLParses(snap["r1"].backends[i].BackendURL)
          /\ snap["r1"].backends[j].BackendID = "unavailable"
    /\ backends["r1"]["app1"] = NewBackendHandler("http://app1")

\* The records of a store in scan order: each route and redirect with the
\* rendering application and the document type it is compiled under.
StoreRecords(st) ==
    Flatten([i \in 1..Len(st.content_items) |->
        LET item == st.content_items[i]
        IN  [j \in 1..Len(item.Routes) |->
                [route |-> item.Routes[j], doc |-> item.DocumentType,
                 app |-> item.RenderingApp]]
            \o [j \in 1..Len(item.Redirects) |->
                [route |-> item.Redirects[j], doc |-> "redirect",
                 app |-> item.RenderingApp]]])

\* The three per-record faults.
BadBackendURL(backend) == ~BackendURLParses(backend.BackendURL)
BadPath(rec) == UrlParse(rec.route.Path).err
UnknownApp(rec, map) ==
    /\ ~UrlParse(rec.route.Path).err
    /\ ~rec.route.Disabled
    /\ rec.doc \notin {"boom", "gone", "redirect"}
    /\ rec.app \notin DOMAIN map

\* C14: a backend whose URL does not parse is left out of the mapping and every
\* other backend is in it; a route whose path does not parse or whose rendering
\* application is unknown is left out of the table and every other route is in
\* it; whatever the records, the load of the backends and the scan of the content
\* items can go on to the swap, and the swap publishes the table so built.
C14_RecordFaultsSkip ==
    \A r \in Reloaders :
        LET st == snap[r]
            recs == StoreRecords(st)
            good == {i \in DOMAIN recs : ~BadPath(recs[i]) /\ ~UnknownApp(recs[i], backends[r])}
        IN  /\ rpc[r] = "backends" => ENABLED ReloadLoadBackends(r)
            /\ BackendsLoaded(r)
                  => /\ \A i \in DOMAIN st.backends :
                           BadBackendURL(st.backends[i])
                              \/ st.backends[i].BackendID \in DOMAIN backends[r]
                     /\ \A id \in DOMAIN backends[r] \ {"gone", "unavailable"} :
                           \E i \in DOMAIN st.backends :
                              /\ st.backends[i].BackendID = id
                              /\ ~BadBackendURL(st.backends[i])
                              /\ backends[r][id] = NewBackendHandler(st.backends[i].BackendURL)
            /\ rpc[r] = "routes"
                  => ENABLED (ReloadLoadRoutesNext(r) \/ ReloadLoadRoutesDone(r))
            /\ Built(r)
                  => /\ RouteCount(muxes[newmux[r]]) = Cardinality(good)
                     /\ \A i \in good :
                           Lookup(muxes[newmux[r]], UrlParse(recs[i].route.Path).Path,
                                  recs[i].route.Type = "prefix") # NoHandler
                     /\ \A k \in DOMAIN muxes[newmux[r]].trie :
                           \E i \in good :
                              k = <<UrlParse(recs[i].route.Path).Path,
                                    recs[i].route.Type = "prefix">>
            /\ rpc[r] \in {"lock", "lockwait", "assign"} => ENABLED Reload(r)
            /\ rpc[r] = "assign" => ENABLED ReloadAssign(r)
            /\ rpc[r] = "unlock" => rt_mux = newmux[r]

\* C14 witness: a reload whose snapshot holds a backend with an unparseable
\* URL, a route with an unparseable path and a route of an unknown rendering
\* application has published a table with the two remaining entries.
C14_Witness ==
    /\ rpc["r1"] = "unlock"
    /\ rt_mux = newmux["r1"]
    /\ \E i \in DOMAIN snap["r1"].backends : BadBackendURL(snap["r1"].backends[i])
    /\ backends["r1"]["app2"] = NewBackendHandler("http://app2")
    /\ BadPath(StoreRecords(snap["r1"])[1])
    /\ UnknownApp(StoreRecords(snap["r1"])[2], backends["r1"])
    /\ RouteCount(muxes[rt_mux]) = 2
    /\ Match(muxes[rt_mux], <<"a">>).kind = "redirect"
    /\ Match(muxes[rt_mux], <<"b">>) = NewBackendHandler("http://app1")

\* The records of a store that are registered: the path parses and the
\* rendering application is known where it is looked up.
GoodRecords(st, map) ==
    {i \in DOMAIN StoreRecords(st) :
        ~BadPath(StoreRecords(st)[i]) /\ ~UnknownApp(StoreRecords(st)[i], map)}

\* C15: in a built table a route is a prefix entry exactly when its Type is
\* "prefix"; for every request path, match returns the handler of the exact entry
\* at that path if there is one, otherwise that of the longest prefix entry at
\* the path or at an ancestor of it, otherwise no match; so an exact entry
\* matches its own path only and a prefix entry every path below it.
C15_MatchPrecedence ==
    \A r \in Reloaders :
        Built(r) =>
            LET mux == muxes[newmux[r]]
                recs == StoreRecords(snap[r])
                good == GoodRecords(snap[r], backends[r])
            IN  /\ DOMAIN mux.trie
                      = {<<UrlParse(recs[i].route.Path).Path, recs[i].route.Type = "prefix">> :
                            i \in good}
                /\ \A p \in ProbePaths :
                      LET ancestors == {k \in 1..Len(p) :
                                          <<SubSeq(p, 1, k), TRUE>> \in DOMAIN mux.trie}
                      IN  IF <<p, FALSE>> \in DOMAIN mux.trie
                          THEN Match(mux, p) = mux.trie[<<p, FALSE>>]
                          ELSE IF ancestors # {}
                          THEN \E k \in ancestors :
                                  /\ \A j \in ancestors : j <= k
                                  /\ Match(mux, p) = mux.trie[<<SubSeq(p, 1, k), TRUE>>]
                          ELSE Match(mux, p) = NoHandler
                /\ \A k \in DOMAIN mux.trie : mux.trie[k] # NoHandler
                /\ \A k \in DOMAIN mux.trie :
                      \A p \in ProbePaths :
                         (Match(mux, p) = mux.trie[k] /\ ~k[2]
                            /\ \A k2 \in DOMAIN mux.trie \ {k} : mux.trie[k2] # mux.trie[k])
                            => p = k[1]

\* C15 witness: the table holds an exact and a prefix entry at /a and a prefix
\* entry at /a/b; /a is answered by the exact entry, /a/a by the prefix entry at
\* /a, /a/b/a by the prefix entry at /a/b, and /b/a, below the exact entry /b,
\* is no match.
C15_Witness ==
    /\ Built("r1")
    /\ snap["r1"] \in RecordStores
    /\ TheItem("r1").Routes[1].Type = ""
    /\ Match(muxes[newmux["r1"]], <<"a">>) = BoomHandler
    /\ Match(muxes[newmux["r1"]], <<"a", "a">>).kind = "redirect"
    /\ Lookup(muxes[newmux["r1"]], <<"a">>, TRUE).kind = "redirect"
    /\ Match(muxes[newmux["r1"]], <<"a", "b", "a">>) = BoomHandler
    /\ Lookup(muxes[newmux["r1"]], <<"a", "b">>, TRUE) = BoomHandler
    /\ Match(muxes[newmux["r1"]], <<"b">>).kind = "backend"
    /\ Match(muxes[newmux["r1"]], <<"b", "a">>) = NoHandler

\* C16 as stated: the count and the checksum of the log line of a successful
\* reload are those of the table this reload built and published.
C16_Original ==
    \A r \in Reloaders :
        rpc[r] = "logged"
            => /\ logline[r].count = RouteCount(muxes[newmux[r]])
               /\ logline[r].checksum = RouteChecksum(muxes[newmux[r]])

\* The positions of RouteStats at which the local mux has been read.
StatsHasMux == {"runlock", "count", "checksum", "done"}

\* C18: the local mux of a RouteStats call is the table published at the
\* instant of its read under the read lock; the call keeps it, and the table
\* is not changed, until it returns; the count and the checksum it returns are
\* both those of that one table.
C18_StatsOfOneTable ==
    [][\A t \in StatsCallers :
          /\ (tpc[t] = "read" /\ tpc'[t] # "read")
                => /\ tmux'[t] = rt_mux
                   /\ rt_mux' = rt_mux
                   /\ t \in lockR
                   /\ tmux'[t] \in published'
          /\ (tpc[t] \in StatsHasMux /\ tpc'[t] # "idle")
                => /\ tmux'[t] = tmux[t]
                   /\ tmux[t] \in DOMAIN muxes'
                   /\ muxes'[tmux[t]] = muxes[tmux[t]]
                   /\ tmux[t] \in published'
          /\ tpc'[t] \in {"checksum", "done"}
                => stats'[t].count = RouteCount(muxes'[tmux'[t]])
          /\ tpc'[t] = "done"
                => /\ stats'[t] = Stats(muxes'[tmux'[t]])
                   /\ \E m \in published' : stats'[t] = Stats(muxes'[m])
      ]_vars

\* C18 witness: a RouteStats call returns the count and checksum of the table
\* of an earlier reload after a later reload has published a table with another
\* count and checksum.
C18_Witness ==
    /\ tpc["t1"] = "done"
    /\ tmux["t1"] # rt_mux
    /\ stats["t1"].count > 0
    /\ muxes[rt_mux].count > 0
    /\ stats["t1"].count # RouteCount(muxes[rt_mux])
    /\ stats["t1"].checksum # Hex(RouteChecksum(muxes[rt_mux]))

\* C19: rt.mux always refers to a table. While it is the reference NewRouter
\* stored, whatever reloads have failed, that table is empty: count 0 and no
\* match for every path. Any other reference is to a table that one whole
\* compile pass over one store built.
C19_AlwaysATable ==
    /\ rt_mux # NoMux
    /\ rt_mux \in DOMAIN muxes
    /\ rt_mux \in published
    /\ rt_mux = 1
          => /\ muxes[rt_mux] = NewMux
             /\ RouteCount(muxes[rt_mux]) = 0
             /\ \A p \in ProbePaths : Match(muxes[rt_mux], p) = NoHandler
             /\ \A r \in Reloaders : rpc[r] \notin AfterSwap
    /\ rt_mux # 1
          => muxes[rt_mux] \in CompiledTables
    /\ \A r \in Reloaders : rpc[r] \in AfterSwap => rt_mux # 1

\* C19 witness: two reload attempts that had created their tables have failed,
\* and a request has been answered from the empty table of NewRouter, which is
\* still published.
C19_Witness ==
    /\ rt_mux = 1
    /\ nextMux = 4
    /\ rpc["r1"] = "recovered"
    /\ rpc["r2"] = "recovered"
    /\ spc["s1"] = "done"
    /\ smux["s1"] = 1
    /\ resp["s1"] = StatusNotFound

\* The positions of ReloadRoutes between a successful Dial and its return.
Connected == {"backends", "routes", "lock", "lockwait", "assign"} \cup AfterSwap

\* C20: a reload holds an open session from its successful Dial on, and none
\* once the attempt has ended, by return or by a recovered fault; a step from
\* idle that fails to connect opens none.
C20_SessionClosed ==
    [][\A r \in Reloaders :
          /\ rpc'[r] \in Connected => sess'[r]
          /\ rpc'[r] \in {"idle", "recovered"} => ~sess'[r]
          /\ (rpc[r] = "idle" /\ rpc'[r] = "backends") => (~sess[r] /\ sess'[r])
          /\ (rpc[r] = "idle" /\ rpc'[r] = "recovered") => (~sess[r] /\ ~sess'[r])
          /\ (rpc[r] \in Connected /\ rpc'[r] \notin Connected)
                => /\ sess[r] /\ ~sess'[r]
                   /\ rpc'[r] \in {"idle", "recovered"}
                   /\ rpc[r] \in {"backends", "routes", "logged"}
                   /\ lockW' # r
      ]_vars

\* C20 witness: two attempts that had connected and created their tables have
\* been aborted by faults in their scans (nothing was published), one has
\* returned, and neither holds a session.
C20_Witness ==
    /\ rpc["r1"] = "recovered"
    /\ rpc["r2"] = "idle"
    /\ nextMux = 4
    /\ rt_mux = 1
    /\ ~sess["r1"]
    /\ ~sess["r2"]

====
